---- MODULE Spec2Model ----
(***************************************************************************)
(* Audio analysis core of music-viz1: FrequencyBands / VisualizerGroups,   *)
(* getBinRange / calculateAllBinRanges and the AudioAnalyzer class.        *)
(*                                                                         *)
(* Numbers.  JavaScript numbers are IEEE doubles; TLC has integers only.   *)
(* An energy (a number of [0,1]) is held as an integer count of 1/Scale,   *)
(* and every arithmetic operation rounds its exact result to the nearest   *)
(* unit, as a double operation rounds to the nearest double.  A            *)
(* Float32Array element has a shorter mantissa than a double: it is held   *)
(* on the coarser grid of F32Step units (Fround).  Decimal literals of the *)
(* source (0.3, 0.95, 0.7, the weights) are the pairs <<num, den>>.        *)
(***************************************************************************)
EXTENDS Integers, Sequences, FiniteSets, TLC

\* null: the value of a field that holds no object
Null == <<>>

\* ------------------------------------------------------------------------
\* Bounds of the model

\* effective update() cycles explored with freely chosen spectra
MaxCycles == 4
\* effective update() cycles explored with the scripted spectrum source
MaxLongCycles == 48
\* p5.AudioIn objects the session may create (one per successful init())
MaxMics == 2
\* startListening() calls that may be suspended at the same time
MaxPending == 1
\* calls of the peak test driver
MaxFed == 3
\* first bin of the upper plateau of a frame's spectrum
SplitBin == 12
\* reads a caller keeps between two update() calls
MaxReads == 2
\* effective cycles, and fft.analyze() calls, of the interface caller
MaxClientCycles == 4
\* alert() dialogs of the start button's handler
MaxAlerts == 2
\* effective cycles run by draw()
MaxHostCycles == 2
\* startListening() calls suspended at once by a caller that does not await
MaxOverlap == 2
\* effective update() calls on a visualizer driven on its own
MaxSoloFrames == 11
\* effective update() calls on the visualizers sharing the pool, all together
MaxSharedFrames == 3
\* cleanup callbacks registered with the memory manager
MaxCallbacks == 3
\* different colours asked of getColor
MaxColors == 1003

\* ------------------------------------------------------------------------
\* Number representation

Scale == 1000000
F32Step == 64

\* n / d rounded to the nearest integer (d > 0), ties upward
RoundDiv(n, d) == (2 * n + d) \div (2 * d)

\* x * q for a decimal literal q = <<num, den>>
Times(x, q) == RoundDiv(x * q[1], q[2])

\* the number of units of a decimal literal
Lit(q) == RoundDiv(q[1] * Scale, q[2])

\* the integer quotient n / d as a number (n >= 0, d > 0), without overflow
Quot(n, d) == (n \div d) * Scale + RoundDiv((n % d) * Scale, d)

\* a store into a Float32Array element: rounding to single precision
Fround(x) == RoundDiv(x, F32Step) * F32Step

Abs(x) == IF x < 0 THEN -x ELSE x

\* ------------------------------------------------------------------------
\* FrequencyBands.js

BandNames == {"SUB_BASS", "BASS", "DRUMS_LOW", "DRUMS_MID", "DRUMS_HIGH",
              "VOCALS_LOW", "VOCALS_MID", "VOCALS_HIGH", "INSTRUMENTS_LOW",
              "INSTRUMENTS_MID", "INSTRUMENTS_HIGH", "AIR"}

FrequencyBands ==
    [SUB_BASS         |-> [min |-> 20,   max |-> 60],
     BASS             |-> [min |-> 60,   max |-> 250],
     DRUMS_LOW        |-> [min |-> 60,   max |-> 200],
     DRUMS_MID        |-> [min |-> 200,  max |-> 2000],
     DRUMS_HIGH       |-> [min |-> 2000, max |-> 8000],
     VOCALS_LOW       |-> [min |-> 80,   max |-> 300],
     VOCALS_MID       |-> [min |-> 300,  max |-> 2000],
     VOCALS_HIGH      |-> [min |-> 2000, max |-> 8000],
     INSTRUMENTS_LOW  |-> [min |-> 80,   max |-> 400],
     INSTRUMENTS_MID  |-> [min |-> 400,  max |-> 2000],
     INSTRUMENTS_HIGH |-> [min |-> 2000, max |-> 6000],
     AIR              |-> [min |-> 8000, max |-> 20000]]

Categories == {"drums", "vocals", "bass", "highs"}

\* mutant: bass weights that sum to 1.2
VisualizerGroups_heavy ==
    [drums  |-> [bands   |-> <<"DRUMS_LOW", "DRUMS_MID", "DRUMS_HIGH">>,
                 weights |-> <<(<<5, 10>>), (<<3, 10>>), (<<2, 10>>)>>],
     vocals |-> [bands   |-> <<"VOCALS_LOW", "VOCALS_MID", "VOCALS_HIGH">>,
                 weights |-> <<(<<2, 10>>), (<<5, 10>>), (<<3, 10>>)>>],
     bass   |-> [bands   |-> <<"SUB_BASS", "BASS">>,
                 weights |-> <<(<<6, 10>>), (<<6, 10>>)>>],
     highs  |-> [bands   |-> <<"INSTRUMENTS_HIGH", "AIR">>,
                 weights |-> <<(<<6, 10>>), (<<4, 10>>)>>]]

VisualizerGroups ==
    [drums  |-> [bands   |-> <<"DRUMS_LOW", "DRUMS_MID", "DRUMS_HIGH">>,
                 weights |-> <<(<<5, 10>>), (<<3, 10>>), (<<2, 10>>)>>],
     vocals |-> [bands   |-> <<"VOCALS_LOW", "VOCALS_MID", "VOCALS_HIGH">>,
                 weights |-> <<(<<2, 10>>), (<<5, 10>>), (<<3, 10>>)>>],
     bass   |-> [bands   |-> <<"SUB_BASS", "BASS">>,
                 weights |-> <<(<<4, 10>>), (<<6, 10>>)>>],
     highs  |-> [bands   |-> <<"INSTRUMENTS_HIGH", "AIR">>,
                 weights |-> <<(<<6, 10>>), (<<4, 10>>)>>]]

\* mutant: the start index is rounded up
FloorDiv_up(n, d) == (n + d - 1) \div d
FloorDiv(n, d) == n \div d
CeilDiv(n, d) == (n + d - 1) \div d

\* mutant: the end index is rounded down
getBinRange_floorEnd(band, rate, size) ==
    [start |-> FloorDiv(band.min * size, rate),
     end   |-> FloorDiv(band.max * size, rate)]

\* binFrequency = sampleRate / fftSize; floor(min / binFrequency),
\* ceil(max / binFrequency), computed on the exact quotient
getBinRange(band, rate, size) ==
    [start |-> FloorDiv(band.min * size, rate),
     end   |-> CeilDiv(band.max * size, rate)]

calculateAllBinRanges(rate, size) ==
    [name \in BandNames |-> getBinRange(FrequencyBands[name], rate, size)]

\* getBinRange on any numbers.  It validates nothing and never throws; the
\* double arithmetic gives, for a zero divisor, an infinity or NaN.
Fin(n) == [kind |-> "finite", val |-> n]
Inf(sign) == [kind |-> "infinite", val |-> sign]
NaN == [kind |-> "NaN", val |-> 0]
Sign(x) == IF x < 0 THEN -1 ELSE 1

\* Math.floor (up = FALSE) or Math.ceil (up = TRUE) of hz / (rate / size)
JsBin(hz, rate, size, up) ==
    IF rate = 0 /\ size = 0
    THEN NaN                                    \* binFrequency = 0 / 0
    ELSE IF size = 0
    THEN Fin(0)                                 \* hz / +-Infinity = +-0
    ELSE IF rate = 0                            \* binFrequency = +-0
    THEN (IF hz = 0 THEN NaN ELSE Inf(Sign(hz) * Sign(size)))
    ELSE LET n == IF rate > 0 THEN hz * size ELSE -(hz * size)
             d == IF rate > 0 THEN rate ELSE -rate
         IN  Fin(IF up THEN CeilDiv(n, d) ELSE FloorDiv(n, d))

getBinRangeAny(band, rate, size) ==
    IF rate > 0 /\ size > 0
    THEN LET r == getBinRange(band, rate, size)
         IN  [start |-> Fin(r.start), end |-> Fin(r.end)]
    ELSE [start |-> JsBin(band.min, rate, size, FALSE),
          end   |-> JsBin(band.max, rate, size, TRUE)]

calculateAllBinRangesAny(rate, size) ==
    [name \in BandNames |-> getBinRangeAny(FrequencyBands[name], rate, size)]

\* arguments of the direct calls
ProbeRates == {0, -44100, 8000, 16000, 22050, 44100, 48000, 96000}
ProbeSizes == {0, -1024, 1, 16, 64, 256, 512, 1000, 1024, 2048}

\* ------------------------------------------------------------------------
\* AudioAnalyzer.js: the analyzer object, the p5.sound objects it holds and
\* the audio context it reads

\* constructor arguments (fftSize, smoothing) the host may pass
FftSizes == {1024}
Smoothings == {<<8, 10>>, <<3, 10>>}
\* getAudioContext().sampleRate
SampleRates == {44100, 16000}

peakThreshold == Lit(<<7, 10>>)
\* mutant: the stored peak never decays
peakDecay_none == <<100, 100>>
peakDecay == <<95, 100>>
historySize == 43
\* mutant: a factor above 1 overshoots the target
smoothFactor_overshoot == <<13, 10>>
smoothFactor == <<3, 10>>

VARIABLES
    fftSize, smoothing,        \* constructor arguments
    fft, mic,                  \* p5.FFT ([input]) and p5.AudioIn ([id]), or Null
    isInitialized, isListening,
    binRanges,                 \* Null or the Map of calculateAllBinRanges
    energyCache,               \* raw sub-band energies and combined, per category
    smoothedEnergy,            \* per category
    peaks,                     \* per category [value, isPeak]
    historyIndex,
    energyHistory,             \* drums, bass: Float32Array(historySize)
    sampleRate,                \* the audio context's sample rate
    mics,                      \* state of every p5.AudioIn object
    pending,                   \* startListening() calls suspended at await mic.start()
    analyzeCalls,              \* number of fft.analyze() calls made so far
    rawLog,                    \* combined raw energies of every effective cycle
    fed,                       \* smoothed values assigned by the peak test driver
    lastOp,                    \* the operation that ran last, with its outcome
    isStarted,                 \* sketch.js: set by the start button's handler
    alerts,                    \* sketch.js: alert() dialogs the handler has shown
    reads,                     \* values getEnergies()/getPeaks() returned since
                               \* the last update()
    probe,                     \* last direct call of getBinRange and its outcome
    visualizers,               \* sketch.js: the four visualizers, by category
    particles,                 \* every Particle object created so far
    particlePool,              \* sketch.js: the global ObjectPool of particles
    memoryManager,             \* the global MemoryManager
    lastFrameTime,             \* sketch.js: millis() of the last draw()
    cleanupLog                 \* callbacks the last performCleanup() invoked

lifecycleVars == <<fftSize, smoothing, fft, mic, isInitialized, isListening,
                   binRanges, sampleRate, mics, pending>>
analysisVars == <<energyCache, smoothedEnergy, peaks, historyIndex, energyHistory>>
vars == <<fftSize, smoothing, fft, mic, isInitialized, isListening, binRanges,
          energyCache, smoothedEnergy, peaks, historyIndex, energyHistory,
          sampleRate, mics, pending, analyzeCalls, rawLog, fed, lastOp,
          isStarted, alerts, reads, probe, visualizers, particles, particlePool,
          memoryManager, lastFrameTime, cleanupLog>>
\* the state of sketch.js and of the callers that read or probe the analyzer
harnessVars == <<isStarted, alerts, reads, probe>>
\* the visualizers, the particle pool and the memory manager of sketch.js
sceneVars == <<visualizers, particles, particlePool, memoryManager,
               lastFrameTime, cleanupLog>>

\* length of the array fft.analyze() returns: new p5.FFT(smoothing, bins)
\* analyses into `bins` magnitudes, each a byte (Uint8Array)
SpectrumLength(bins) == bins

\* The loop  for (i = range.start; i < range.end && i < spectrum.length; i++)
\*               { sum += spectrum[i]; count++; }
\* visits the bins lo .. hi-1 with hi = min(range.end, spectrum.length).
\* The sum of these bytes is an exact integer; it is added up by halves to
\* keep the evaluation shallow.
Min(a, b) == IF a < b THEN a ELSE b

RECURSIVE SumBins(_, _, _)
SumBins(spectrum, lo, hi) ==
    IF hi <= lo THEN 0
    ELSE IF hi = lo + 1 THEN spectrum[lo]
    ELSE LET half == (lo + hi) \div 2
         IN  SumBins(spectrum, lo, half) + SumBins(spectrum, half, hi)

\* mutant: the count includes the bin after the last one summed
CountBins_inclusive(lo, hi) == IF hi <= lo THEN 0 ELSE hi - lo + 1
CountBins(lo, hi) == IF hi <= lo THEN 0 ELSE hi - lo

\* mutant: the average is not divided by 255
_getAverageEnergy_raw(ranges, spectrum, len, bandName) ==
    IF bandName \notin DOMAIN ranges THEN 0
    ELSE LET range == ranges[bandName]
             hi    == Min(range.end, len)
             sum   == SumBins(spectrum, range.start, hi)
             count == CountBins(range.start, hi)
         IN  IF count > 0 THEN Quot(sum, count) ELSE 0

\* ranges is the Map this.binRanges (not null)
_getAverageEnergy(ranges, spectrum, len, bandName) ==
    IF bandName \notin DOMAIN ranges THEN 0
    ELSE LET range == ranges[bandName]
             hi    == Min(range.end, len)
             sum   == SumBins(spectrum, range.start, hi)
             count == CountBins(range.start, hi)
         IN  IF count > 0 THEN RoundDiv(Quot(sum, count), 255) ELSE 0

\* getBandEnergy(bandName) on the spectrum fft.analyze() returns: the sum over
\* the bins below spectrum.length, divided by range.end - range.start
getBandEnergy(fftObject, ranges, spectrum, len, bandName) ==
    IF fftObject = Null \/ ranges = Null THEN 0
    ELSE IF bandName \notin DOMAIN ranges THEN 0
    ELSE LET range == ranges[bandName]
             sum   == SumBins(spectrum, range.start, Min(range.end, len))
             count == range.end - range.start
         IN  IF count > 0 THEN Quot(sum, count) ELSE 0

\* arguments of the direct calls of the two energy functions
ProbeBytes == {0, 100, 255}
ProbeLengths == {0, 2, 4}
ProbeSpectra == UNION {[0..(n - 1) -> ProbeBytes] : n \in ProbeLengths}
ProbeBinRanges == {[start |-> a, end |-> b] : a \in 0..5, b \in 0..6}
\* the Map of a call: the band asked for has the range, or only another band has
ProbeMap(range, known) ==
    IF known THEN [name \in {"SUB_BASS"} |-> range]
             ELSE [name \in {"BASS"} |-> range]

RECURSIVE WeightedFrom(_, _, _, _)
WeightedFrom(energies, weights, i, sum) ==
    IF i <= Len(energies)
    THEN WeightedFrom(energies, weights, i + 1, sum + Times(energies[i], weights[i]))
    ELSE sum

RECURSIVE TenthsFrom(_, _)
TenthsFrom(weights, i) ==
    IF i <= Len(weights) THEN weights[i][1] + TenthsFrom(weights, i + 1) ELSE 0

\* mutant: the sum is divided by the sum of the weights (weights in tenths)
_calculateWeightedEnergy_normalised(energies, weights) ==
    RoundDiv(WeightedFrom(energies, weights, 1, 0) * 10, TenthsFrom(weights, 1))

_calculateWeightedEnergy(energies, weights) == WeightedFrom(energies, weights, 1, 0)

\* ------------------------------------------------------------------------
\* The spectrum source (fft.analyze()).  A frame describes one spectrum: the
\* bins below SplitBin hold the byte lo, the others the byte hi.

Analyze(frame, len) ==
    [i \in 0..(len - 1) |-> IF i < SplitBin THEN frame.lo ELSE frame.hi]

\* the frames a freely behaving source may deliver: silence, full scale,
\* a flat 0.6 and a low-frequency burst
FreeFrames == {[lo |-> 0, hi |-> 0], [lo |-> 255, hi |-> 255],
               [lo |-> 153, hi |-> 153], [lo |-> 255, hi |-> 0]}

\* the scripted source: the levels of the n-th effective cycle, a bar of 16
\* cycles (four loud hits, a tail, a second hit, a fade) that gets a little
\* quieter each time it is repeated
ScriptBar == <<255, 255, 255, 255, 153, 166, 255, 255,
               240, 200, 190, 120, 60, 0, 30, 90>>

ScriptLevel(n) ==
    LET b == ScriptBar[(n % 16) + 1]
    IN  IF b >= 8 THEN b - 2 * (n \div 16) ELSE b

ScriptFrame(n) == [lo |-> ScriptLevel(n), hi |-> ScriptLevel(n + 5)]

AllFrames == FreeFrames \cup {ScriptFrame(n) : n \in 0..MaxLongCycles}

\* mutant: the step uses the smoothing value given to the constructor
Smooth_ctorFactor(s, combined) == s + Times(combined - s, smoothing)

\* one exponential-moving-average step: s += (combined - s) * smoothFactor
Smooth(s, combined) == s + Times(combined - s, smoothFactor)

\* mutant: the comparison is made against the value before its decay
DetectPeak_compareUndecayed(current, peak) ==
    LET decayed == Times(peak.value, peakDecay)
    IN  IF current > peak.value /\ current > peakThreshold
        THEN [value |-> current, isPeak |-> TRUE]
        ELSE [value |-> decayed, isPeak |-> FALSE]

\* mutant: the absolute threshold is not tested
DetectPeak_noThreshold(current, peak) ==
    LET decayed == Times(peak.value, peakDecay)
    IN  IF current > decayed
        THEN [value |-> current, isPeak |-> TRUE]
        ELSE [value |-> decayed, isPeak |-> FALSE]

\* the body of the loop of _detectPeaks for one category
DetectPeak(current, peak) ==
    LET decayed == Times(peak.value, peakDecay)
    IN  IF current > decayed /\ current > peakThreshold
        THEN [value |-> current, isPeak |-> TRUE]
        ELSE [value |-> decayed, isPeak |-> FALSE]

_detectPeaks(smoothed, pk) ==
    [cat \in Categories |-> DetectPeak(smoothed[cat], pk[cat])]

\* the energyCache entries update() computes from one spectrum
ComputeEnergies(ranges, spectrum, len) ==
    LET e(name) == _getAverageEnergy(ranges, spectrum, len, name)
        dl == e("DRUMS_LOW")
        dm == e("DRUMS_MID")
        dh == e("DRUMS_HIGH")
        vl == e("VOCALS_LOW")
        vm == e("VOCALS_MID")
        vh == e("VOCALS_HIGH")
        bs == e("SUB_BASS")
        bm == e("BASS")
        hi == e("INSTRUMENTS_HIGH")
        ha == e("AIR")
    IN  [drums  |-> [low |-> dl, mid |-> dm, high |-> dh,
                     combined |-> _calculateWeightedEnergy(<<dl, dm, dh>>,
                                      VisualizerGroups.drums.weights)],
         vocals |-> [low |-> vl, mid |-> vm, high |-> vh,
                     combined |-> _calculateWeightedEnergy(<<vl, vm, vh>>,
                                      VisualizerGroups.vocals.weights)],
         bass   |-> [sub |-> bs, main |-> bm,
                     combined |-> _calculateWeightedEnergy(<<bs, bm>>,
                                      VisualizerGroups.bass.weights)],
         highs  |-> [instruments |-> hi, air |-> ha,
                     combined |-> _calculateWeightedEnergy(<<hi, ha>>,
                                      VisualizerGroups.highs.weights)]]

SmoothAll(smoothed, cache) ==
    [cat \in Categories |-> Smooth(smoothed[cat], cache[cat].combined)]

\* mutant: the two stores go to each other's buffer
HistoryWrite_swapped(hist, idx, cache) ==
    [drums |-> [hist.drums EXCEPT ![idx] = Fround(cache.bass.combined)],
     bass  |-> [hist.bass EXCEPT ![idx] = Fround(cache.drums.combined)]]

\* _updateHistory: the two stores and the new index
HistoryWrite(hist, idx, cache) ==
    [drums |-> [hist.drums EXCEPT ![idx] = Fround(cache.drums.combined)],
     bass  |-> [hist.bass EXCEPT ![idx] = Fround(cache.bass.combined)]]

\* mutant: the index is not wrapped
NextHistoryIndex_noWrap(idx) == idx + 1
NextHistoryIndex(idx) == (idx + 1) % historySize

\* ComputeEnergies for every bin-range table, spectrum length and frame of
\* the model, evaluated once
RangeTables == {calculateAllBinRanges(rate, size) : rate \in SampleRates, size \in FftSizes}

EnergyTable ==
    [ranges \in RangeTables |->
        [size \in FftSizes |->
            [frame \in AllFrames |->
                ComputeEnergies(ranges, Analyze(frame, SpectrumLength(size)),
                                SpectrumLength(size))]]]

\* mutant: the guard tests the fft only
UpdateReturnsEarly_fftOnly == fft = Null

\* the guard of update(): if (!this.fft || !this.isListening) return;
UpdateReturnsEarly == fft = Null \/ ~isListening

\* mutant: peak detection runs before the smoothed energies are updated
update_peaksFirst(frame) ==
    IF UpdateReturnsEarly
    THEN /\ UNCHANGED <<analysisVars, analyzeCalls, rawLog>>
         /\ lastOp' = "update:return"
    ELSE IF binRanges = Null
    THEN \* this.binRanges.get throws a TypeError after the spectrum was pulled
         /\ analyzeCalls' = analyzeCalls + 1
         /\ UNCHANGED <<analysisVars, rawLog>>
         /\ lastOp' = "update:throw"
    ELSE LET cache == EnergyTable[binRanges][fftSize][frame]
             sm    == SmoothAll(smoothedEnergy, cache)
         IN  /\ analyzeCalls' = analyzeCalls + 1
             /\ energyCache' = cache
             /\ smoothedEnergy' = sm
             /\ energyHistory' = HistoryWrite(energyHistory, historyIndex, cache)
             /\ historyIndex' = NextHistoryIndex(historyIndex)
             /\ peaks' = _detectPeaks(smoothedEnergy, peaks)
             /\ rawLog' = Append(rawLog, [drums |-> cache.drums.combined,
                                          bass |-> cache.bass.combined,
                                          vocals |-> cache.vocals.combined,
                                          highs |-> cache.highs.combined])
             /\ lastOp' = "update:cycle"

\* update() when fft.analyze() delivers the spectrum of `frame`
update(frame) ==
    IF UpdateReturnsEarly
    THEN /\ UNCHANGED <<analysisVars, analyzeCalls, rawLog>>
         /\ lastOp' = "update:return"
    ELSE IF binRanges = Null
    THEN \* this.binRanges.get throws a TypeError after the spectrum was pulled
         /\ analyzeCalls' = analyzeCalls + 1
         /\ UNCHANGED <<analysisVars, rawLog>>
         /\ lastOp' = "update:throw"
    ELSE LET cache == EnergyTable[binRanges][fftSize][frame]
             sm    == SmoothAll(smoothedEnergy, cache)
         IN  /\ analyzeCalls' = analyzeCalls + 1
             /\ energyCache' = cache
             /\ smoothedEnergy' = sm
             /\ energyHistory' = HistoryWrite(energyHistory, historyIndex, cache)
             /\ historyIndex' = NextHistoryIndex(historyIndex)
             /\ peaks' = _detectPeaks(sm, peaks)
             /\ rawLog' = Append(rawLog, [drums |-> cache.drums.combined,
                                          bass |-> cache.bass.combined,
                                          vocals |-> cache.vocals.combined,
                                          highs |-> cache.highs.combined])
             /\ lastOp' = "update:cycle"

\* ways the spectrum source can fail once update() has passed its guard:
\* fft.analyze() throws, or it returns no array and the first
\* spectrum.length of _getAverageEnergy throws a TypeError
Faults == {"analyze throws", "no spectrum"}

\* update() on a failing source: update() has no try/catch, so the exception
\* leaves update() before the first assignment to energyCache
updateFaulty(fault) ==
    IF UpdateReturnsEarly
    THEN /\ UNCHANGED <<analysisVars, analyzeCalls, rawLog>>
         /\ lastOp' = "update:return"
    ELSE /\ fault \in Faults
         /\ analyzeCalls' = analyzeCalls + 1
         /\ UNCHANGED <<analysisVars, rawLog>>
         /\ lastOp' = "update:throw"

\* getEnergies(): a new object with the four smoothed energies and, as raw,
\* the energyCache
getEnergies ==
    [drums  |-> smoothedEnergy.drums,
     vocals |-> smoothedEnergy.vocals,
     bass   |-> smoothedEnergy.bass,
     highs  |-> smoothedEnergy.highs,
     raw    |-> energyCache]

\* getPeaks(): the peaks object
getPeaks == peaks

\* a caller reads the energies and keeps what it got
GetEnergies ==
    /\ Len(reads.energies) < MaxReads
    /\ reads' = [reads EXCEPT !.energies = Append(@, getEnergies)]
    /\ lastOp' = "getEnergies"
    /\ UNCHANGED <<lifecycleVars, analysisVars, analyzeCalls, rawLog, fed,
                   isStarted, alerts, probe, sceneVars>>

\* mutant: reading the peaks consumes the isPeak flags
GetPeaks_consumes ==
    /\ Len(reads.peaks) < MaxReads
    /\ reads' = [reads EXCEPT !.peaks = Append(@, getPeaks)]
    /\ peaks' = [cat \in Categories |-> [peaks[cat] EXCEPT !.isPeak = FALSE]]
    /\ lastOp' = "getPeaks"
    /\ UNCHANGED <<lifecycleVars, energyCache, smoothedEnergy, historyIndex,
                   energyHistory, analyzeCalls, rawLog, fed, isStarted, alerts,
                   probe, sceneVars>>

\* a caller reads the peaks and keeps what it got
GetPeaks ==
    /\ Len(reads.peaks) < MaxReads
    /\ reads' = [reads EXCEPT !.peaks = Append(@, getPeaks)]
    /\ lastOp' = "getPeaks"
    /\ UNCHANGED <<lifecycleVars, analysisVars, analyzeCalls, rawLog, fed,
                   isStarted, alerts, probe, sceneVars>>

\* ------------------------------------------------------------------------
\* Lifecycle: init(), startListening(), stopListening(), dispose()

MicIds == 1..MaxMics
UsedMics == {m \in MicIds : mics[m] # "none"}
NewMic == Cardinality(UsedMics) + 1

\* how far init() gets before it throws ("ok": it does not)
InitStages == {"fft", "mic", "ctx", "ok"}

\* stopListening(): the mic is stopped only when one is held and listening
StopEffective == mic # Null /\ isListening

\* mutant: the mic is stopped whether or not the analyzer is listening
stopListening_noGuard ==
    IF mic # Null
    THEN /\ mics' = [mics EXCEPT ![mic.id] = "stopped"]
         /\ isListening' = FALSE
    ELSE UNCHANGED <<mics, isListening>>

stopListening ==
    IF StopEffective
    THEN /\ mics' = [mics EXCEPT ![mic.id] = "stopped"]
         /\ isListening' = FALSE
    ELSE UNCHANGED <<mics, isListening>>

StopListening ==
    /\ stopListening
    /\ lastOp' = "stopListening"
    /\ UNCHANGED <<fftSize, smoothing, fft, mic, isInitialized, binRanges,
                   sampleRate, pending, analysisVars, analyzeCalls, rawLog, fed>>

Dispose ==
    /\ stopListening
    /\ fft' = Null
    /\ mic' = Null
    /\ isInitialized' = FALSE
    /\ lastOp' = "dispose"
    /\ UNCHANGED <<fftSize, smoothing, binRanges, sampleRate, pending,
                   analysisVars, analyzeCalls, rawLog, fed>>

\* startListening() whose init() throws at `stage`: the catch of init()
\* returns false and startListening() returns false
StartInitFails(stage) ==
    /\ ~isInitialized
    /\ stage # "ok"
    /\ stage = "ctx" => NewMic \in MicIds
    /\ fft' = IF stage = "fft" THEN fft ELSE [input |-> Null]
    /\ mic' = IF stage = "ctx" THEN [id |-> NewMic] ELSE mic
    /\ mics' = IF stage = "ctx" THEN [mics EXCEPT ![NewMic] = "idle"] ELSE mics
    /\ lastOp' = "startListening:false"
    /\ UNCHANGED <<fftSize, smoothing, isInitialized, isListening, binRanges,
                   sampleRate, pending, analysisVars, analyzeCalls, rawLog, fed>>

\* startListening() up to its suspension at `await this.mic.start()`,
\* running init() first when the analyzer is not initialized
StartBeginWithin(limit) ==
    /\ Len(pending) < limit
    /\ IF isInitialized
       THEN /\ pending' = Append(pending, mic)
            /\ UNCHANGED <<fft, mic, mics, binRanges, isInitialized>>
       ELSE /\ NewMic \in MicIds
            /\ fft' = [input |-> Null]
            /\ mic' = [id |-> NewMic]
            /\ mics' = [mics EXCEPT ![NewMic] = "idle"]
            /\ binRanges' = calculateAllBinRanges(sampleRate, fftSize)
            /\ isInitialized' = TRUE
            /\ pending' = Append(pending, [id |-> NewMic])
    /\ lastOp' = "startListening:await"
    /\ UNCHANGED <<fftSize, smoothing, isListening, sampleRate, analysisVars,
                   analyzeCalls, rawLog, fed>>

StartBegin == StartBeginWithin(MaxPending)

RemoveAt(seq, i) == SubSeq(seq, 1, i - 1) \o SubSeq(seq, i + 1, Len(seq))

\* mutant: a rejected mic.start() is not caught
StartResume_noCatch(i, ok) ==
    /\ i \in 1..Len(pending)
    /\ pending' = RemoveAt(pending, i)
    /\ mics' = IF ok THEN [mics EXCEPT ![pending[i].id] = "live"] ELSE mics
    /\ IF ok /\ fft # Null
       THEN /\ fft' = [input |-> mic]
            /\ isListening' = TRUE
            /\ lastOp' = "startListening:true"
       ELSE /\ UNCHANGED <<fft, isListening>>
            /\ lastOp' = IF ok THEN "startListening:false"
                                ELSE "startListening:throw"
    /\ UNCHANGED <<fftSize, smoothing, mic, isInitialized, binRanges, sampleRate,
                   analysisVars, analyzeCalls, rawLog, fed>>

\* the i-th suspended startListening() resumes: mic.start() resolved (ok) or
\* rejected; this.fft.setInput(this.mic) throws a TypeError when fft is null
StartResume(i, ok) ==
    /\ i \in 1..Len(pending)
    /\ pending' = RemoveAt(pending, i)
    /\ mics' = IF ok THEN [mics EXCEPT ![pending[i].id] = "live"] ELSE mics
    /\ IF ok /\ fft # Null
       THEN /\ fft' = [input |-> mic]
            /\ isListening' = TRUE
            /\ lastOp' = "startListening:true"
       ELSE /\ UNCHANGED <<fft, isListening>>
            /\ lastOp' = "startListening:false"
    /\ UNCHANGED <<fftSize, smoothing, mic, isInitialized, binRanges, sampleRate,
                   analysisVars, analyzeCalls, rawLog, fed>>

\* ------------------------------------------------------------------------
\* sketch.js: Particle, ObjectPool and the global particlePool

Max(a, b) == IF a > b THEN a ELSE b

\* const particlePool = new ObjectPool(() => new Particle(), 100, 1000)
particlePoolInitialSize == 100
particlePoolMaxSize == 1000

\* Particle.reset(); of a particle the model keeps `active` and `life`
Particle_reset == [active |-> FALSE, life |-> Scale]

\* Particle.init(x, y, vx, vy, life, size, color)
Particle_init(life) == [active |-> TRUE, life |-> life]

\* deltaTime * 0.016, deltaTime in milliseconds
LifeLoss(dt) == dt * ((16 * Scale) \div 1000)

\* Particle.update(deltaTime): the particle after the call and the value
\* the call returns
Particle_update(particle, dt) ==
    IF ~particle.active
    THEN [particle |-> particle, alive |-> FALSE]
    ELSE LET life == particle.life - LifeLoss(dt)
         IN  IF life <= 0
             THEN [particle |-> [active |-> FALSE, life |-> life], alive |-> FALSE]
             ELSE [particle |-> [active |-> TRUE, life |-> life], alive |-> TRUE]

\* A scene sc is the record of the visualizers, the particles and the pool.
\* ObjectPool.acquire(): the object handed out and the scene after the call
acquire(sc) ==
    LET free    == sc.particlePool.pool
        counted == [sc EXCEPT !.particlePool.activeCount = @ + 1]
    IN  IF Len(free) > 0
        THEN [obj |-> free[Len(free)],
              sc  |-> [counted EXCEPT !.particlePool.pool =
                                          SubSeq(free, 1, Len(free) - 1)]]
        ELSE [obj |-> Len(sc.particles) + 1,
              sc  |-> [counted EXCEPT !.particles = Append(@, Particle_reset)]]

\* ObjectPool.release(obj)
release(sc, obj) ==
    LET counted == [sc EXCEPT !.particlePool.activeCount = Max(0, @ - 1)]
    IN  IF Len(sc.particlePool.pool) < sc.particlePool.maxSize
        THEN [counted EXCEPT !.particles[obj] = Particle_reset,
                             !.particlePool.pool = Append(@, obj)]
        ELSE counted

\* ObjectPool.releaseAll(objects), release(objects[i]) for i in order, in
\* one step: the count drops once per object, and the objects released while
\* the pool is below maxSize are reset and pushed
releaseAll(sc, objects) ==
    LET free   == sc.particlePool.pool
        room   == Max(0, sc.particlePool.maxSize - Len(free))
        pushed == SubSeq(objects, 1, Min(Len(objects), room))
    IN  [sc EXCEPT
            !.particlePool.activeCount = Max(0, @ - Len(objects)),
            !.particlePool.pool = free \o pushed,
            !.particles = [obj \in DOMAIN @ |->
                              IF \E k \in 1..Len(pushed) : pushed[k] = obj
                              THEN Particle_reset ELSE @[obj]]]

\* acquire() called n times in a row: the objects handed out, in order,
\* and the scene after the calls
acquireAll(sc, n) ==
    LET free    == sc.particlePool.pool
        created == Max(0, n - Len(free))
    IN  [objs |-> [k \in 1..n |-> IF k <= Len(free)
                                  THEN free[Len(free) + 1 - k]
                                  ELSE Len(sc.particles) + k - Len(free)],
         sc   |-> [sc EXCEPT
                      !.particlePool.activeCount = @ + n,
                      !.particlePool.pool = SubSeq(free, 1, Len(free) - Min(n, Len(free))),
                      !.particles = @ \o [k \in 1..created |-> Particle_reset]]]

\* ObjectPool.clear()
clear(pool) == [pool EXCEPT !.pool = <<>>, !.activeCount = 0]

\* ------------------------------------------------------------------------
\* BaseVisualizer and HighsVisualizer

\* this.maxParticles of BaseVisualizer and of HighsVisualizer
BaseMaxParticles == 50
HighsMaxParticles == 100

\* this.smoothingFactor
smoothingFactor == <<2, 10>>

\* the constructor; of a visualizer the model keeps what update(), toggle()
\* and dispose() read or write, but not its position, stars and shimmer
NewVisualizer(cap) ==
    [enabled |-> TRUE, energy |-> 0, smoothedEnergy |-> 0,
     activeParticles |-> <<>>, maxParticles |-> cap,
     frameSkip |-> 0, frameCounter |-> 0]

\* _updateParticles(deltaTime): for (i = length - 1; i >= 0; i--) the
\* particle at i is updated and, if update() returns false, released and
\* spliced out.  In one step: the visit of index i is the Visit(i)-th
\* update() of its particle in this loop, the particle outlives it when it
\* was active and its life stays positive, and the particles that do not are
\* released in the order of the visits.
_updateParticles(sc, v, dt) ==
    LET list  == sc.visualizers[v].activeParticles
        n     == Len(list)
        Visit(i) == Cardinality({k \in i..n : list[k] = list[i]})
        Outlives(i) ==
            /\ sc.particles[list[i]].active
            /\ sc.particles[list[i]].life - Visit(i) * LifeLoss(dt) > 0
        Visits(obj) == Cardinality({k \in 1..n : list[k] = obj})
        Fatal(obj) == {j \in 1..Visits(obj) :
                          sc.particles[obj].life - j * LifeLoss(dt) <= 0}
        held  == {list[k] : k \in 1..n}
        Aged(obj) ==
            IF obj \notin held \/ ~sc.particles[obj].active
            THEN sc.particles[obj]
            ELSE IF Fatal(obj) = {}
            THEN [active |-> TRUE,
                  life |-> sc.particles[obj].life - Visits(obj) * LifeLoss(dt)]
            ELSE [active |-> FALSE,
                  life |-> sc.particles[obj].life
                           - (CHOOSE j \in Fatal(obj) : \A k \in Fatal(obj) : j <= k)
                             * LifeLoss(dt)]
        downward == [k \in 1..n |-> n + 1 - k]
        dead  == SelectSeq(downward, LAMBDA i : ~Outlives(i))
        kept  == SelectSeq([k \in 1..n |-> k], Outlives)
        aged  == [sc EXCEPT
                     !.particles = [obj \in DOMAIN @ |-> Aged(obj)],
                     !.visualizers[v].activeParticles =
                         [k \in 1..Len(kept) |-> list[kept[k]]]]
    IN  releaseAll(aged, [k \in 1..Len(dead) |-> list[dead[k]]])

\* _spawnParticle() and the body of the loop of _spawnSparkles(), n times:
\* a particle is acquired, initialised with `life` and pushed
SpawnParticles(sc, v, n, life) ==
    LET got == acquireAll(sc, n)
    IN  [got.sc EXCEPT
            !.particles = [obj \in DOMAIN @ |->
                              IF \E k \in 1..n : got.objs[k] = obj
                              THEN Particle_init(life) ELSE @[obj]],
            !.visualizers[v].activeParticles = @ \o got.objs]

\* for (i = 0; i < count && activeParticles.length < maxParticles; i++):
\* each turn pushes one particle
SpawnLoop(sc, v, count, life) ==
    SpawnParticles(sc, v,
        Max(0, Min(count, sc.visualizers[v].maxParticles
                              - Len(sc.visualizers[v].activeParticles))),
        life)

\* for (i = 0; i < count; i++)
SpawnAll(sc, v, count, life) == SpawnParticles(sc, v, Max(0, count), life)

\* Math.floor(x * k) for a number x and an integer k
FloorTimes(x, k) == (x * k) \div Scale

\* _onPeak(energy): Math.floor(energy * 5) particles of life 1 + Math.random()
_onPeak(sc, v, e, rnd) == SpawnLoop(sc, v, FloorTimes(e, 5), Scale + rnd)

\* mutant: the sparkles are spawned without looking at maxParticles
_spawnSparkles_uncapped(sc, v, e, rnd) ==
    SpawnAll(sc, v, FloorTimes(e, 8), Lit(<<1, 2>>) + Times(rnd, <<1, 2>>))

\* HighsVisualizer._spawnSparkles(energy): Math.floor(energy * 8) particles
\* of life 0.5 + Math.random() * 0.5
_spawnSparkles(sc, v, e, rnd) ==
    SpawnLoop(sc, v, FloorTimes(e, 8), Lit(<<1, 2>>) + Times(rnd, <<1, 2>>))

\* onUpdate(energy, peaks, deltaTime): only HighsVisualizer's touches the
\* particles, if (peaks && peaks.isPeak && energy > 0.4)
onUpdate(sc, v, e, pk, rnd) ==
    IF v = "highs" /\ pk # Null /\ pk.isPeak /\ e > Lit(<<4, 10>>)
    THEN _spawnSparkles(sc, v, e, rnd)
    ELSE sc

\* BaseVisualizer.update(energy, peaks, deltaTime); rnd is the value
\* Math.random() returns for the lives of the particles this call spawns
BaseVisualizer_update(sc, v, e, pk, dt, rnd) ==
    LET viz == sc.visualizers[v]
    IN  IF ~viz.enabled THEN sc
        ELSE LET counted == [sc EXCEPT !.visualizers[v].frameCounter = @ + 1]
             IN  IF viz.frameSkip > 0
                    /\ (viz.frameCounter + 1) % viz.frameSkip # 0
                 THEN counted
                 ELSE LET set == [counted EXCEPT
                                     !.visualizers[v].energy = e,
                                     !.visualizers[v].smoothedEnergy =
                                         @ + Times(e - @, smoothingFactor)]
                          moved   == _updateParticles(set, v, dt)
                          spawned == IF pk # Null /\ pk.isPeak
                                     THEN _onPeak(moved, v, e, rnd)
                                     ELSE moved
                      IN  onUpdate(spawned, v, e, pk, rnd)

\* BaseVisualizer.toggle()
BaseVisualizer_toggle(sc, v) == [sc EXCEPT !.visualizers[v].enabled = ~@]

\* mutant: the particles are released but the list is not emptied
BaseVisualizer_dispose_keepsList(sc, v) ==
    releaseAll(sc, sc.visualizers[v].activeParticles)

\* BaseVisualizer.dispose(): every particle is released, then the list is
\* emptied
BaseVisualizer_dispose(sc, v) ==
    [releaseAll(sc, sc.visualizers[v].activeParticles) EXCEPT
         !.visualizers[v].activeParticles = <<>>]

\* ------------------------------------------------------------------------
\* MemoryManager

\* this.cleanupInterval, in milliseconds
cleanupInterval == 30000

\* The callbacks: "filter" is the one setup() registers; of the hooks other
\* consumers register, "noop" returns and "throws" throws.
CallbackKinds == {"filter", "noop", "throws"}

\* the callback of setup(): viz.activeParticles.filter(p => p.active)
FilterInactive(sc) ==
    [sc EXCEPT !.visualizers =
        [v \in Categories |->
            [sc.visualizers[v] EXCEPT !.activeParticles =
                SelectSeq(@, LAMBDA obj : sc.particles[obj].active)]]]

\* mutant: no try/catch around callback(); the exception leaves the loop
RECURSIVE RunCallbacksUncaught(_, _, _)
RunCallbacksUncaught(callbacks, i, run) ==
    IF i > Len(callbacks) THEN run
    ELSE LET called == [run EXCEPT !.invoked = Append(@, i)]
         IN  IF callbacks[i] = "throws"
             THEN [called EXCEPT !.escaped = TRUE]
             ELSE IF callbacks[i] = "filter"
             THEN RunCallbacksUncaught(callbacks, i + 1,
                      [called EXCEPT !.sc = FilterInactive(@)])
             ELSE RunCallbacksUncaught(callbacks, i + 1, called)

performCleanup_noCatch(callbacks, sc) ==
    RunCallbacksUncaught(callbacks, 1,
        [sc |-> sc, invoked |-> <<>>, caught |-> {}, escaped |-> FALSE])

\* for (const callback of this.cleanupCallbacks)
\*     try { callback(); } catch (e) { console.warn(...) }
RECURSIVE RunCallbacks(_, _, _)
RunCallbacks(callbacks, i, run) ==
    IF i > Len(callbacks) THEN run
    ELSE LET called == [run EXCEPT !.invoked = Append(@, i)]
         IN  IF callbacks[i] = "throws"
             THEN RunCallbacks(callbacks, i + 1,
                      [called EXCEPT !.caught = @ \cup {i}])
             ELSE IF callbacks[i] = "filter"
             THEN RunCallbacks(callbacks, i + 1,
                      [called EXCEPT !.sc = FilterInactive(@)])
             ELSE RunCallbacks(callbacks, i + 1, called)

\* performCleanup(): the scene after the callbacks, the indices of the
\* callbacks invoked in order, those whose exception was caught, and whether
\* an exception left performCleanup(); window.DEBUG_MODE is false, so
\* logStats() is not called
performCleanup(callbacks, sc) ==
    RunCallbacks(callbacks, 1,
        [sc |-> sc, invoked |-> <<>>, caught |-> {}, escaped |-> FALSE])

LogOf(run) == [invoked |-> run.invoked, caught |-> run.caught,
               escaped |-> run.escaped]

\* MemoryManager.update(currentTime): the manager, the scene and the log
\* after the call
MemoryManager_update(mm, sc, log, currentTime) ==
    IF currentTime - mm.lastCleanup > cleanupInterval
    THEN LET run == performCleanup(mm.cleanupCallbacks, sc)
         IN  [mm  |-> IF run.escaped THEN mm
                      ELSE [mm EXCEPT !.lastCleanup = currentTime],
              sc  |-> run.sc,
              log |-> LogOf(run)]
    ELSE [mm |-> mm, sc |-> sc, log |-> log]

\* MemoryManager.dispose(): every registered pool is cleared, the colour
\* cache and the callbacks are emptied
MemoryManager_dispose(mm) ==
    [mm EXCEPT !.colorCache = <<>>, !.cleanupCallbacks = <<>>]

\* this.colorCache.size > 1000
colorCacheLimit == 1000

\* MemoryManager.getColor(r, g, b, a): the cache after the call, in insertion
\* order, and the object returned; the key `${r},${g},${b},${a}` is kept as
\* the tuple of the four numbers
getColor(cache, r, g, b, a) ==
    LET key  == <<r, g, b, a>>
        hit  == \E i \in 1..Len(cache) : cache[i].key = key
        kept == IF Len(cache) > colorCacheLimit THEN Tail(cache) ELSE cache
        set  == Append(kept, [key |-> key,
                              value |-> [r |-> r, g |-> g, b |-> b, a |-> a]])
        now  == IF hit THEN cache ELSE set
    IN  [cache  |-> now,
         result |-> now[CHOOSE i \in 1..Len(now) : now[i].key = key].value,
         hit    |-> hit]

\* the scene held by the variables
Scene == [visualizers |-> visualizers, particles |-> particles,
          particlePool |-> particlePool]

SetScene(sc) ==
    /\ visualizers' = sc.visualizers
    /\ particles' = sc.particles
    /\ particlePool' = sc.particlePool

\* ------------------------------------------------------------------------
\* The specifications

Init ==
    /\ fftSize \in FftSizes
    /\ smoothing \in Smoothings
    /\ fft = Null
    /\ mic = Null
    /\ isInitialized = FALSE
    /\ isListening = FALSE
    /\ binRanges = Null
    /\ energyCache = [drums  |-> [low |-> 0, mid |-> 0, high |-> 0, combined |-> 0],
                      vocals |-> [low |-> 0, mid |-> 0, high |-> 0, combined |-> 0],
                      bass   |-> [sub |-> 0, main |-> 0, combined |-> 0],
                      highs  |-> [instruments |-> 0, air |-> 0, combined |-> 0]]
    /\ smoothedEnergy = [cat \in Categories |-> 0]
    /\ peaks = [cat \in Categories |-> [value |-> 0, isPeak |-> FALSE]]
    /\ historyIndex = 0
    /\ energyHistory = [drums |-> [i \in 0..(historySize - 1) |-> 0],
                        bass  |-> [i \in 0..(historySize - 1) |-> 0]]
    /\ sampleRate \in SampleRates
    /\ mics = [m \in MicIds |-> "none"]
    /\ pending = <<>>
    /\ analyzeCalls = 0
    /\ rawLog = <<>>
    /\ fed = <<>>
    /\ lastOp = "new"
    /\ visualizers = [v \in Categories |->
                          NewVisualizer(IF v = "highs" THEN HighsMaxParticles
                                                       ELSE BaseMaxParticles)]
    /\ particles = [i \in 1..particlePoolInitialSize |-> Particle_reset]
    /\ particlePool = [maxSize |-> particlePoolMaxSize,
                       pool |-> [i \in 1..particlePoolInitialSize |-> i],
                       activeCount |-> 0]
    /\ memoryManager = [cleanupCallbacks |-> <<"filter">>, lastCleanup |-> 0,
                        colorCache |-> <<>>]
    /\ lastFrameTime = 0
    /\ cleanupLog = Null
    /\ isStarted = FALSE
    /\ alerts = 0
    /\ reads = [energies |-> <<>>, peaks |-> <<>>]
    /\ probe = Null

\* the host's frame: update() on whatever spectrum the source delivers
Update ==
    /\ Len(rawLog) < MaxCycles
    /\ \E frame \in FreeFrames : update(frame)
    /\ UNCHANGED <<lifecycleVars, fed, harnessVars, sceneVars>>

\* the host's frame with the scripted source
UpdateScripted ==
    /\ Len(rawLog) < MaxLongCycles
    /\ update(ScriptFrame(Len(rawLog)))
    /\ UNCHANGED <<lifecycleVars, fed, harnessVars, sceneVars>>

Lifecycle ==
    /\ \/ \E stage \in InitStages : StartInitFails(stage)
       \/ StartBegin
       \/ \E i \in 1..MaxPending, ok \in BOOLEAN : StartResume(i, ok)
       \/ StopListening
       \/ Dispose
    /\ UNCHANGED <<harnessVars, sceneVars>>

Next == Lifecycle \/ Update

Spec == Init /\ [][Next]_vars

NextLong == Lifecycle \/ UpdateScripted

SpecLong == Init /\ [][NextLong]_vars

\* The unit test of _detectPeaks: the driver assigns the smoothed energies
\* (a for drums and vocals, b for bass and highs) and calls _detectPeaks()
DriverLevels == {Lit(<<9, 10>>), Lit(<<1, 2>>), Lit(<<3, 4>>), Scale}

PeakDriver ==
    /\ Len(fed) < MaxFed
    /\ \E a \in DriverLevels, b \in DriverLevels :
           LET row == [cat \in Categories |->
                          IF cat \in {"drums", "vocals"} THEN a ELSE b]
           IN  /\ smoothedEnergy' = row
               /\ peaks' = _detectPeaks(row, peaks)
               /\ fed' = Append(fed, row)
    /\ lastOp' = "_detectPeaks"
    /\ UNCHANGED <<lifecycleVars, energyCache, historyIndex, energyHistory,
                   analyzeCalls, rawLog, harnessVars, sceneVars>>

NextPeak == PeakDriver

SpecPeak == Init /\ [][NextPeak]_vars

\* A caller of the analyzer's whole interface: the lifecycle, update() on the
\* scripted source or on a failing one, and the two getters; what the getters
\* returned is kept until the next update() call.  This caller awaits each
\* startListening() before its next call.
NoReads == [energies |-> <<>>, peaks |-> <<>>]

ClientLifecycle ==
    /\ Lifecycle
    /\ pending = <<>> \/ Len(pending') < Len(pending)

ClientUpdate ==
    /\ pending = <<>>
    /\ Len(rawLog) < MaxClientCycles
    /\ update(ScriptFrame(Len(rawLog)))
    /\ reads' = NoReads
    /\ UNCHANGED <<lifecycleVars, fed, isStarted, alerts, probe, sceneVars>>

ClientUpdateFaulty ==
    /\ pending = <<>>
    /\ analyzeCalls < MaxClientCycles
    /\ \E fault \in Faults : updateFaulty(fault)
    /\ reads' = NoReads
    /\ UNCHANGED <<lifecycleVars, fed, isStarted, alerts, probe, sceneVars>>

NextClient ==
    \/ ClientLifecycle
    \/ ClientUpdate
    \/ ClientUpdateFaulty
    \/ GetEnergies
    \/ GetPeaks

SpecClient == Init /\ [][NextClient]_vars

\* sketch.js: the start button's click handler, draw() and the beforeunload
\* handler, on one analyzer

\* click: startListening() returns false out of init(); the handler alerts
HostClickFails(stage) ==
    /\ alerts < MaxAlerts
    /\ StartInitFails(stage)
    /\ alerts' = alerts + 1
    /\ UNCHANGED <<isStarted, reads, probe, sceneVars>>

\* click: the handler is suspended inside startListening()
HostClickBegin ==
    /\ StartBegin
    /\ UNCHANGED <<harnessVars, sceneVars>>

\* mutant: the handler sets isStarted whatever startListening() returned
HostClickResume_alwaysStarts(i, ok) ==
    /\ StartResume(i, ok)
    /\ isStarted' = TRUE
    /\ alerts' = alerts
    /\ UNCHANGED <<reads, probe, sceneVars>>

\* the handler resumes with startListening()'s result:
\* if (success) isStarted = true; else alert(...)
HostClickResume(i, ok) ==
    /\ StartResume(i, ok)
    /\ IF lastOp' = "startListening:true"
       THEN /\ isStarted' = TRUE
            /\ alerts' = alerts
       ELSE /\ alerts < MaxAlerts
            /\ alerts' = alerts + 1
            /\ isStarted' = isStarted
    /\ UNCHANGED <<reads, probe, sceneVars>>

\* the values of millis() at which draw() runs
FrameTimes == {16, 32, 30040}

\* the values Math.random() returns, one per update() call
Randoms == {0, Lit(<<1, 2>>)}

\* draw(): the start screen until isStarted; then update() and the getters,
\* the four visualizers' update() and memoryManager.update(currentTime)
Draw ==
    \E currentTime \in FrameTimes, rnd \in Randoms :
        LET deltaTime == currentTime - lastFrameTime
        IN  /\ currentTime > lastFrameTime
            /\ lastFrameTime' = currentTime
            /\ IF ~isStarted
               THEN /\ lastOp' = "draw:startScreen"
                    /\ UNCHANGED <<lifecycleVars, analysisVars, analyzeCalls,
                                   rawLog, fed, harnessVars, visualizers,
                                   particles, particlePool, memoryManager,
                                   cleanupLog>>
               ELSE /\ Len(rawLog) < MaxHostCycles
                    /\ update(ScriptFrame(Len(rawLog)))
                    /\ UNCHANGED <<lifecycleVars, fed, isStarted, alerts, probe>>
                    /\ IF lastOp' = "update:throw"
                       THEN UNCHANGED <<reads, visualizers, particles,
                                        particlePool, memoryManager, cleanupLog>>
                       ELSE LET e   == getEnergies'
                                pk  == getPeaks'
                                sc1 == BaseVisualizer_update(Scene, "drums",
                                           e.drums, pk.drums, deltaTime, rnd)
                                sc2 == BaseVisualizer_update(sc1, "vocals",
                                           e.vocals, pk.vocals, deltaTime, rnd)
                                sc3 == BaseVisualizer_update(sc2, "bass",
                                           e.bass, pk.bass, deltaTime, rnd)
                                sc4 == BaseVisualizer_update(sc3, "highs",
                                           e.highs, pk.highs, deltaTime, rnd)
                                done == MemoryManager_update(memoryManager, sc4,
                                            cleanupLog, currentTime)
                            IN  /\ reads' = [energies |-> <<e>>, peaks |-> <<pk>>]
                                /\ SetScene(done.sc)
                                /\ memoryManager' = done.mm
                                /\ cleanupLog' = done.log

\* beforeunload: audioAnalyzer.dispose(), every visualizer's dispose() and
\* memoryManager.dispose(), which clears the registered pools
Unload ==
    /\ Dispose
    /\ LET sc1 == BaseVisualizer_dispose(Scene, "drums")
           sc2 == BaseVisualizer_dispose(sc1, "vocals")
           sc3 == BaseVisualizer_dispose(sc2, "bass")
           sc4 == BaseVisualizer_dispose(sc3, "highs")
       IN  /\ visualizers' = sc4.visualizers
           /\ particles' = sc4.particles
           /\ particlePool' = clear(sc4.particlePool)
    /\ memoryManager' = MemoryManager_dispose(memoryManager)
    /\ UNCHANGED <<harnessVars, lastFrameTime, cleanupLog>>

NextHost ==
    \/ \E stage \in InitStages : HostClickFails(stage)
    \/ HostClickBegin
    \/ \E i \in 1..MaxPending, ok \in BOOLEAN : HostClickResume(i, ok)
    \/ Draw
    \/ Unload

SpecHost == Init /\ [][NextHost]_vars

\* Direct calls of the functions of FrequencyBands.js
ProbeBinRange ==
    /\ \E name \in BandNames, rate \in ProbeRates, size \in ProbeSizes :
           probe' = [fn |-> "getBinRange", band |-> name, rate |-> rate,
                     size |-> size, threw |-> FALSE,
                     range |-> getBinRangeAny(FrequencyBands[name], rate, size)]
    /\ lastOp' = "getBinRange"
    /\ UNCHANGED <<lifecycleVars, analysisVars, analyzeCalls, rawLog, fed,
                   isStarted, alerts, reads, sceneVars>>

ProbeAllBinRanges ==
    /\ \E rate \in ProbeRates, size \in ProbeSizes :
           probe' = [fn |-> "calculateAllBinRanges", rate |-> rate,
                     size |-> size, threw |-> FALSE,
                     table |-> calculateAllBinRangesAny(rate, size)]
    /\ lastOp' = "calculateAllBinRanges"
    /\ UNCHANGED <<lifecycleVars, analysisVars, analyzeCalls, rawLog, fed,
                   isStarted, alerts, reads, sceneVars>>

NextBins == ProbeBinRange \/ ProbeAllBinRanges

SpecBins == Init /\ [][NextBins]_vars

\* Direct calls of _getAverageEnergy and getBandEnergy, one per analyzer
ProbeAverageEnergy ==
    /\ probe = Null
    /\ \E spectrum \in ProbeSpectra, range \in ProbeBinRanges, known \in BOOLEAN :
           probe' = [fn |-> "_getAverageEnergy", spectrum |-> spectrum,
                     range |-> range, known |-> known, threw |-> FALSE,
                     result |-> _getAverageEnergy(ProbeMap(range, known), spectrum,
                                    Cardinality(DOMAIN spectrum), "SUB_BASS")]
    /\ lastOp' = "_getAverageEnergy"
    /\ UNCHANGED <<lifecycleVars, analysisVars, analyzeCalls, rawLog, fed,
                   isStarted, alerts, reads, sceneVars>>

ProbeBandEnergy ==
    /\ probe = Null
    /\ \E spectrum \in ProbeSpectra, range \in ProbeBinRanges, known \in BOOLEAN :
           LET len == Cardinality(DOMAIN spectrum)
               map == ProbeMap(range, known)
           IN  probe' = [fn |-> "getBandEnergy", spectrum |-> spectrum,
                         range |-> range, known |-> known, threw |-> FALSE,
                         result |-> getBandEnergy([input |-> Null], map, spectrum,
                                                  len, "SUB_BASS"),
                         average |-> _getAverageEnergy(map, spectrum, len,
                                                       "SUB_BASS")]
    /\ lastOp' = "getBandEnergy"
    /\ analyzeCalls' = analyzeCalls + 1
    /\ UNCHANGED <<lifecycleVars, analysisVars, rawLog, fed, isStarted, alerts,
                   reads, sceneVars>>

NextEnergy == ProbeAverageEnergy \/ ProbeBandEnergy

SpecEnergy == Init /\ [][NextEnergy]_vars

\* A caller that does not await startListening(): up to MaxOverlap calls are
\* suspended at once while stopListening() and dispose() run between them
OverlapLifecycle ==
    /\ \/ \E stage \in InitStages : StartInitFails(stage)
       \/ StartBeginWithin(MaxOverlap)
       \/ \E i \in 1..MaxOverlap, ok \in BOOLEAN : StartResume(i, ok)
       \/ StopListening
       \/ Dispose
    /\ UNCHANGED <<harnessVars, sceneVars>>

NextOverlap == OverlapLifecycle

SpecOverlap == Init /\ [][NextOverlap]_vars

\* Direct calls of _calculateWeightedEnergy on a new analyzer, next to update()
\* cycles of a caller that awaits startListening()
ProbeEnergyLists ==
    {<<Scale, Scale>>, <<Lit(<<1, 2>>), Lit(<<1, 4>>)>>,
     <<Scale, 0, Lit(<<1, 2>>)>>, <<Scale, Scale, Scale>>}
ProbeWeightLists ==
    {<<(<<5, 10>>), (<<3, 10>>)>>, <<(<<4, 10>>), (<<6, 10>>)>>,
     <<(<<10, 10>>), (<<10, 10>>)>>, <<(<<5, 10>>), (<<3, 10>>), (<<2, 10>>)>>,
     <<(<<2, 10>>), (<<2, 10>>), (<<2, 10>>)>>}

ProbeWeightedEnergy ==
    /\ probe = Null
    /\ lastOp = "new"
    /\ \E energies \in ProbeEnergyLists, weights \in ProbeWeightLists :
           /\ Len(energies) = Len(weights)
           /\ probe' = [fn |-> "_calculateWeightedEnergy", energies |-> energies,
                        weights |-> weights, threw |-> FALSE,
                        result |-> _calculateWeightedEnergy(energies, weights)]
    /\ lastOp' = "_calculateWeightedEnergy"
    /\ UNCHANGED <<lifecycleVars, analysisVars, analyzeCalls, rawLog, fed,
                   isStarted, alerts, reads, sceneVars>>

NextWeights ==
    \/ ClientLifecycle
    \/ ClientUpdate
    \/ ProbeWeightedEnergy

SpecWeights == Init /\ [][NextWeights]_vars

\* ------------------------------------------------------------------------
\* Direct calls on the visualizers, the pool and the memory manager

analyzerVars == <<lifecycleVars, analysisVars, analyzeCalls, rawLog, fed,
                  isStarted, alerts, reads>>

\* update(energy, peaks, deltaTime) as a caller drives it directly: the
\* energy, peaks.isPeak, the frame interval in milliseconds and the value of
\* Math.random() during the call
Call(e, isPeak, dt, rnd) == [e |-> e, isPeak |-> isPeak, dt |-> dt, rnd |-> rnd]

\* a visualizer on its own: a peak at full energy with no time elapsed, or
\* 70 ms without a peak
SoloCalls == {Call(Scale, TRUE, 0, Lit(<<1, 2>>)), Call(Scale, FALSE, 70, 0)}

\* visualizers on the shared pool
SharedCalls == {Call(Scale, TRUE, 0, Lit(<<1, 2>>)),
                Call(Lit(<<1, 2>>), TRUE, 70, 0),
                Call(Scale, FALSE, 70, 0)}

\* the page the visualizers are driven in: setup() has constructed
\* new AudioAnalyzer(1024, 0.8) and the audio context runs at 44.1 kHz
SketchAnalyzer == fftSize = 1024 /\ smoothing = <<8, 10>> /\ sampleRate = 44100

\* the visualizers a caller drives directly
Driven == {"drums", "highs"}

Untouched(v) == visualizers[v].frameCounter = 0
                   /\ visualizers[v].activeParticles = <<>>
                   /\ visualizers[v].enabled

\* visualizers[v].update(...) with one of `calls`, at most `limit` effective
\* calls on all the visualizers together
UpdateVisualizer(v, calls, limit) ==
    /\ visualizers.drums.frameCounter + visualizers.vocals.frameCounter
           + visualizers.bass.frameCounter + visualizers.highs.frameCounter < limit
    /\ \E c \in calls :
           SetScene(BaseVisualizer_update(Scene, v, c.e,
                        [value |-> c.e, isPeak |-> c.isPeak], c.dt, c.rnd))
    /\ probe' = [fn |-> "update", v |-> v]
    /\ lastOp' = "visualizer.update"
    /\ UNCHANGED <<analyzerVars, memoryManager, lastFrameTime, cleanupLog>>

\* visualizers[v].toggle()
ToggleVisualizer(v) ==
    /\ SetScene(BaseVisualizer_toggle(Scene, v))
    /\ probe' = [fn |-> "toggle", v |-> v]
    /\ lastOp' = "visualizer.toggle"
    /\ UNCHANGED <<analyzerVars, memoryManager, lastFrameTime, cleanupLog>>

\* visualizers[v].dispose()
DisposeVisualizer(v) ==
    /\ SetScene(BaseVisualizer_dispose(Scene, v))
    /\ probe' = [fn |-> "dispose", v |-> v]
    /\ lastOp' = "visualizer.dispose"
    /\ UNCHANGED <<analyzerVars, memoryManager, lastFrameTime, cleanupLog>>

\* One visualizer driven on its own through update(), toggle() and dispose()
SoloUpdate ==
    \E v \in Driven :
        /\ SketchAnalyzer
        /\ \A w \in Driven \ {v} : Untouched(w)
        /\ UpdateVisualizer(v, SoloCalls, MaxSoloFrames)

SoloToggle ==
    \E v \in Driven :
        /\ SketchAnalyzer
        /\ \A w \in Driven \ {v} : Untouched(w)
        /\ visualizers[v].frameCounter < MaxSoloFrames
        /\ ToggleVisualizer(v)

SoloDispose ==
    \E v \in Driven :
        /\ SketchAnalyzer
        /\ \A w \in Driven \ {v} : Untouched(w)
        /\ visualizers[v].frameCounter < MaxSoloFrames
        /\ DisposeVisualizer(v)

NextVisualizer ==
    \/ SoloUpdate
    \/ SoloToggle
    \/ SoloDispose

SpecVisualizer == Init /\ [][NextVisualizer]_vars

\* memoryManager.performCleanup(), as the memory monitor calls it
PerformCleanup ==
    LET run == performCleanup(memoryManager.cleanupCallbacks, Scene)
    IN  /\ SetScene(run.sc)
        /\ cleanupLog' = LogOf(run)
        /\ lastOp' = "performCleanup"
        /\ UNCHANGED <<analyzerVars, probe, memoryManager, lastFrameTime>>

\* Several visualizers on the shared pool, with the cleanup callback
SharedUpdate ==
    \E v \in Driven :
        SketchAnalyzer /\ UpdateVisualizer(v, SharedCalls, MaxSharedFrames)

SharedDispose == \E v \in Driven : SketchAnalyzer /\ DisposeVisualizer(v)

NextParticles ==
    \/ SharedUpdate
    \/ SharedDispose
    \/ PerformCleanup

SpecParticles == Init /\ [][NextParticles]_vars

\* memoryManager.onCleanup(callback), by a consumer other than setup()
OnCleanup(kind) ==
    /\ kind \in {"noop", "throws"}
    /\ Len(memoryManager.cleanupCallbacks) < MaxCallbacks
    /\ memoryManager' = [memoryManager EXCEPT !.cleanupCallbacks = Append(@, kind)]
    /\ lastOp' = "onCleanup"
    /\ UNCHANGED <<analyzerVars, probe, visualizers, particles, particlePool,
                   lastFrameTime, cleanupLog>>

\* The sketch with a user who waits for the start button's handler, consumers
\* that register cleanup hooks, and the memory monitor
AwaitedClick ==
    /\ HostClickBegin \/ \E ok \in BOOLEAN : HostClickResume(1, ok)
    /\ pending = <<>> \/ Len(pending') < Len(pending)

NextCleanup ==
    \/ AwaitedClick
    \/ Draw
    \/ \E kind \in CallbackKinds : OnCleanup(kind)
    \/ PerformCleanup

SpecCleanup == Init /\ [][NextCleanup]_vars

\* memoryManager.getColor(r, g, b, a) for the k-th colour of a palette
ColorOf(k) == [r |-> k % 256, g |-> k \div 256, b |-> 0, a |-> 255]

\* the colours asked for: the next one of the palette never asked before, the
\* first one of the palette, or the one cached last
GetColor ==
    LET cache  == memoryManager.colorCache
        asked  == IF probe = Null THEN 0 ELSE probe.asked
        fresh  == ColorOf(asked + 1)
        last   == IF cache = <<>> THEN fresh ELSE cache[Len(cache)].value
    IN  \E c \in {fresh, ColorOf(1), last} :
            LET got == getColor(cache, c.r, c.g, c.b, c.a)
            IN  /\ c = fresh => asked < MaxColors
                /\ memoryManager' = [memoryManager EXCEPT !.colorCache = got.cache]
                /\ probe' = [fn |-> "getColor", args |-> c, result |-> got.result,
                             hit |-> got.hit,
                             asked |-> IF c = fresh THEN asked + 1 ELSE asked]
                /\ lastOp' = "getColor"
                /\ UNCHANGED <<analyzerVars, visualizers, particles, particlePool,
                               lastFrameTime, cleanupLog>>

NextColor == GetColor

SpecColor == Init /\ [][NextColor]_vars

\* ------------------------------------------------------------------------
\* Properties

\* a step in which update() ran a whole analysis cycle
CycleStep == Len(rawLog') = Len(rawLog) + 1

\* the combined raw energies of the cycle a CycleStep ran
ThisRaw == rawLog'[Len(rawLog')]

\* C1: on every update() that passes the guard, for each category, the peak
\* value is first multiplied by 0.95; isPeak is (smoothed > decayed value and
\* smoothed > 0.7); the value becomes the smoothed energy when isPeak, and
\* stays at the decayed value otherwise.
C1_PeakDetection ==
    [][CycleStep =>
         \A cat \in Categories :
            LET decayed == RoundDiv(peaks[cat].value * 95, 100)
                current == smoothedEnergy'[cat]
                trigger == current > decayed /\ current > 700000
            IN  /\ peaks'[cat].isPeak = trigger
                /\ peaks'[cat].value = IF trigger THEN current ELSE decayed]_vars

\* C1 witness: after a cycle one category has just peaked while another holds
\* the decayed value of an earlier peak
C1_Witness ==
    /\ lastOp = "update:cycle"
    /\ \E c1 \in Categories, c2 \in Categories :
          /\ peaks[c1].isPeak /\ peaks[c1].value = smoothedEnergy[c1]
          /\ ~peaks[c2].isPeak /\ peaks[c2].value > smoothedEnergy[c2]
          /\ smoothedEnergy[c2] > 0

\* the number of driver calls so far, when every one of them assigned the
\* smoothed energy 0.9 to cat (0 otherwise)
AllNineTenths(cat) ==
    IF \A i \in 1..Len(fed) : fed[i][cat] = 900000 THEN Len(fed) ELSE 0

\* C2 as stated: with the smoothed energy 0.9 on three consecutive cycles from
\* the initial peak state, isPeak is true on cycle 1 only and false on cycles
\* 2 and 3.
C2_DebounceAsStated ==
    \A cat \in Categories :
        /\ AllNineTenths(cat) = 1 => peaks[cat].isPeak
        /\ AllNineTenths(cat) \in {2, 3} => ~peaks[cat].isPeak

\* C2 amended: with the smoothed energy 0.9 on three consecutive cycles from
\* the initial peak state, isPeak is true on each of the three cycles and the
\* peak value is 0.9 after each (the decayed value 0.855 is below 0.9).
C2_RefiresEveryCycle ==
    \A cat \in Categories :
        AllNineTenths(cat) \in {1, 2, 3} =>
            peaks[cat].isPeak /\ peaks[cat].value = 900000

\* C2 witness: the third cycle at 0.9 has run
C2_Witness ==
    /\ lastOp = "_detectPeaks"
    /\ \E cat \in Categories : AllNineTenths(cat) = 3 /\ peaks[cat].isPeak

\* a peak has been registered for cat and none fired in the last cycle
AfterPeak(cat) == peaks[cat].value > 0 /\ ~peaks[cat].isPeak

\* C3 as stated: while the smoothed energy is above the threshold but not
\* above the decayed peak value, isPeak is false and the value shrinks by
\* 0.95 per cycle; isPeak becomes true again exactly on the first cycle at
\* which the decayed value is strictly below the smoothed energy.
C3_RefireAsStated ==
    [][CycleStep =>
         \A cat \in Categories :
            LET decayed == RoundDiv(peaks[cat].value * 95, 100)
                current == smoothedEnergy'[cat]
            IN  /\ (current > 700000 /\ current <= decayed) =>
                       /\ ~peaks'[cat].isPeak
                       /\ peaks'[cat].value = decayed
                /\ AfterPeak(cat) => (peaks'[cat].isPeak <=> decayed < current)]_vars

\* C3 amended: as stated, but isPeak becomes true again on the first cycle at
\* which the decayed value is strictly below the smoothed energy AND the
\* smoothed energy is above the threshold.
C3_RefireAboveThreshold ==
    [][CycleStep =>
         \A cat \in Categories :
            LET decayed == RoundDiv(peaks[cat].value * 95, 100)
                current == smoothedEnergy'[cat]
            IN  /\ (current > 700000 /\ current <= decayed) =>
                       /\ ~peaks'[cat].isPeak
                       /\ peaks'[cat].value = decayed
                /\ AfterPeak(cat) =>
                       (peaks'[cat].isPeak <=> (decayed < current /\ current > 700000))]_vars

\* C3 witness: a debounced cycle (energy above the threshold, below the
\* decayed value of the earlier peak)
C3_Witness ==
    /\ lastOp = "update:cycle"
    /\ \E cat \in Categories :
          /\ AfterPeak(cat)
          /\ smoothedEnergy[cat] > 700000
          /\ smoothedEnergy[cat] < peaks[cat].value

\* a step made by a call of update() (a call that changes nothing at all
\* after another such call is a stuttering step)
UpdateStep ==
    /\ lastOp' \in {"update:return", "update:cycle", "update:throw"}
    /\ lastOp' # lastOp \/ CycleStep \/ analyzeCalls' # analyzeCalls

\* C4: when the analyzer is not listening (isListening false or fft null),
\* update() changes none of energyCache, smoothedEnergy, peaks, energyHistory,
\* historyIndex and pulls no spectrum; when it is listening, update() pulls
\* one spectrum and performs all of its steps.
C4_GuardedUpdate ==
    [][UpdateStep =>
         IF fft = Null \/ ~isListening
         THEN /\ UNCHANGED <<energyCache, smoothedEnergy, peaks, energyHistory,
                             historyIndex, analyzeCalls, rawLog>>
              /\ lastOp' = "update:return"
         ELSE /\ lastOp' = "update:cycle"
              /\ analyzeCalls' = analyzeCalls + 1
              /\ CycleStep
              /\ \A cat \in Categories :
                    /\ energyCache'[cat].combined = ThisRaw[cat]
                    /\ smoothedEnergy'[cat] - smoothedEnergy[cat]
                          = RoundDiv((ThisRaw[cat] - smoothedEnergy[cat]) * 3, 10)
                    /\ peaks'[cat].value
                          \in {smoothedEnergy'[cat], RoundDiv(peaks[cat].value * 95, 100)}
              /\ historyIndex' # historyIndex
              /\ \A b \in {"drums", "bass"} :
                    Abs(energyHistory'[b][historyIndex] - ThisRaw[b]) < 64]_vars

\* C4 witness: update() returned at the guard on an analyzer that holds an
\* fft and has run cycles before (it was stopped)
C4_Witness ==
    /\ lastOp = "update:return"
    /\ fft # Null
    /\ ~isListening
    /\ Len(rawLog) > 0
    /\ analyzeCalls = Len(rawLog)

\* C5: within one update(), for every category, the raw combined energy is
\* computed before the smoothed energy is updated (the smoothing step takes
\* this cycle's combined value), and peak detection runs after smoothing and
\* compares this cycle's smoothed value, not the previous one nor the raw one.
C5_OrderWithinCycle ==
    [][CycleStep =>
         \A cat \in Categories :
            LET raw      == energyCache'[cat].combined
                fresh    == smoothedEnergy[cat]
                               + RoundDiv((raw - smoothedEnergy[cat]) * 3, 10)
                decayed  == RoundDiv(peaks[cat].value * 95, 100)
            IN  /\ raw = ThisRaw[cat]
                /\ smoothedEnergy'[cat] = fresh
                /\ peaks'[cat].isPeak = (fresh > decayed /\ fresh > 700000)
                /\ peaks'[cat].isPeak => peaks'[cat].value = fresh]_vars

\* C5 witness: a peak registered with this cycle's smoothed value, which
\* differs from this cycle's raw value
C5_Witness ==
    /\ lastOp = "update:cycle"
    /\ Len(rawLog) >= 2
    /\ \E cat \in Categories :
          /\ peaks[cat].isPeak
          /\ peaks[cat].value = smoothedEnergy[cat]
          /\ energyCache[cat].combined # smoothedEnergy[cat]

\* C6: each update() that passes the guard applies exactly one step
\* smoothed' = smoothed + (rawCombined - smoothed) * 0.3 to each of the four
\* categories, with this cycle's combined energy, whatever smoothing value
\* the constructor was given; no other step changes a smoothed energy.
C6_OneSmoothingStep ==
    [][IF CycleStep
       THEN \A cat \in Categories :
               smoothedEnergy'[cat] =
                   smoothedEnergy[cat]
                     + RoundDiv((rawLog'[Len(rawLog')][cat] - smoothedEnergy[cat]) * 3, 10)
       ELSE smoothedEnergy' = smoothedEnergy]_vars

\* C6 witness: a cycle has run on an analyzer constructed with smoothing 0.8
C6_Witness ==
    /\ lastOp = "update:cycle"
    /\ smoothing = <<8, 10>>
    /\ \E cat \in Categories :
          smoothedEnergy[cat] > 0 /\ smoothedEnergy[cat] < energyCache[cat].combined

InUnit(x) == 0 <= x /\ x <= 1000000

\* C7: in every reachable state, for every category, the smoothed energy lies
\* in [0,1], and so does every raw sub-band energy and every combined energy
\* of energyCache (the spectrum bins being bytes).
C7_EnergiesInUnitInterval ==
    \A cat \in Categories :
        /\ InUnit(smoothedEnergy[cat])
        /\ \A field \in DOMAIN energyCache[cat] : InUnit(energyCache[cat][field])

\* C7 witness: a combined energy at the upper end of the interval
C7_Witness ==
    /\ lastOp = "update:cycle"
    /\ \E cat \in Categories :
          energyCache[cat].combined = 1000000 /\ smoothedEnergy[cat] > 0
    /\ \E cat \in Categories : energyCache[cat].combined < 1000000

\* the last k cycles of log had the same combined energy for cat
HeldFor(log, cat, k) ==
    /\ Len(log) >= k
    /\ \A i \in (Len(log) - k + 1)..Len(log) : log[i][cat] = log[Len(log)][cat]

\* C8: while a category's raw combined energy is held at v, the distance
\* |smoothed - v| never increases from a cycle to the next, the smoothed
\* value never crosses to the other side of v, and it converges to v: the
\* distance shrinks by the factor 0.7 per cycle (up to the rounding of one
\* operation), so that it is within 1/4 after 4 cycles.
C8_SmoothingConverges ==
    [][CycleStep =>
         \A cat \in Categories :
            HeldFor(rawLog', cat, 2) =>
                LET v  == ThisRaw[cat]
                    s  == smoothedEnergy[cat]
                    sn == smoothedEnergy'[cat]
                IN  /\ Abs(sn - v) <= Abs(s - v)
                    /\ s <= v => sn <= v
                    /\ s >= v => sn >= v
                    /\ 10 * Abs(sn - v) <= 7 * Abs(s - v) + 5
                    /\ Abs(s - v) >= 2 => Abs(sn - v) < Abs(s - v)
                    /\ HeldFor(rawLog', cat, 4) => 4 * Abs(sn - v) <= 1000000]_vars

\* C8 witness: a combined energy held for four cycles, the smoothed value
\* still on its way
C8_Witness ==
    /\ lastOp = "update:cycle"
    /\ \E cat \in Categories :
          /\ HeldFor(rawLog, cat, 4)
          /\ smoothedEnergy[cat] # energyCache[cat].combined
          /\ smoothedEnergy[cat] > 0

\* C9 as stated: each update() that passes the guard writes this cycle's raw
\* combined energy of drums and of bass into their history buffers at
\* historyIndex and then sets historyIndex to (historyIndex + 1) mod 43;
\* historyIndex is in 0..42 in every reachable state; no history is kept for
\* vocals or highs.
C9_HistoryWriteAsStated ==
    [][/\ historyIndex \in 0..42 /\ historyIndex' \in 0..42
       /\ DOMAIN energyHistory' = {"drums", "bass"}
       /\ IF CycleStep
          THEN /\ \A b \in {"drums", "bass"} :
                     energyHistory'[b] =
                         [energyHistory[b] EXCEPT ![historyIndex] = ThisRaw[b]]
               /\ historyIndex' = (historyIndex + 1) % 43
          ELSE UNCHANGED <<energyHistory, historyIndex>>]_vars

\* C9 amended: as stated, the value stored being this cycle's raw combined
\* energy rounded to single precision (the buffers are Float32Arrays).
C9_HistoryWriteRounded ==
    [][/\ historyIndex \in 0..42 /\ historyIndex' \in 0..42
       /\ DOMAIN energyHistory' = {"drums", "bass"}
       /\ IF CycleStep
          THEN /\ \A b \in {"drums", "bass"} :
                     energyHistory'[b] =
                         [energyHistory[b] EXCEPT
                             ![historyIndex] = RoundDiv(ThisRaw[b], 64) * 64]
               /\ historyIndex' = (historyIndex + 1) % 43
          ELSE UNCHANGED <<energyHistory, historyIndex>>]_vars

\* C9 witness: the 43rd cycle has wrapped the index to 0
C9_Witness ==
    /\ lastOp = "update:cycle"
    /\ Len(rawLog) = 43
    /\ historyIndex = 0
    /\ energyHistory.drums[42] > 0
    /\ energyHistory.drums[42] # energyHistory.bass[42]

\* C10 as stated: after n >= 43 effective cycles each history buffer holds
\* exactly the last 43 raw combined values written, and reading the slots
\* historyIndex, historyIndex + 1, ... (mod 43) returns them oldest first.
C10_WindowAsStated ==
    Len(rawLog) >= 43 =>
        \A b \in {"drums", "bass"} : \A k \in 0..42 :
            energyHistory[b][(historyIndex + k) % 43]
                = rawLog[Len(rawLog) - 43 + k + 1][b]

\* C10 amended: after n >= 43 effective cycles each history buffer holds the
\* last 43 raw combined values, each rounded to single precision, and reading
\* the slots historyIndex, historyIndex + 1, ... (mod 43) returns them oldest
\* first.
C10_WindowRounded ==
    Len(rawLog) >= 43 =>
        \A b \in {"drums", "bass"} : \A k \in 0..42 :
            energyHistory[b][(historyIndex + k) % 43]
                = RoundDiv(rawLog[Len(rawLog) - 43 + k + 1][b], 64) * 64

\* C10 witness: 43 + 5 cycles have run and the window holds many values
C10_Witness ==
    /\ Len(rawLog) = 48
    /\ historyIndex = 5
    /\ Cardinality({energyHistory.drums[i] : i \in 0..42}) > 10

\* C11: getEnergies() and getPeaks() change no analyzer state, and the calls
\* made between two update() invocations all return the same values (smoothed
\* energies, raw breakdown, peak value and isPeak of every category).
C11_GettersReadOnly ==
    [][lastOp' \in {"getEnergies", "getPeaks"} =>
         /\ UNCHANGED <<fftSize, smoothing, fft, mic, isInitialized, isListening,
                        binRanges, energyCache, smoothedEnergy, peaks,
                        historyIndex, energyHistory>>
         /\ \A i \in 1..Len(reads'.energies) :
                reads'.energies[i] = reads'.energies[1]
         /\ \A i \in 1..Len(reads'.peaks) :
                reads'.peaks[i] = reads'.peaks[1]]_vars

\* C11 witness: after a cycle with a peak, both getters were called twice,
\* the second getPeaks() last
C11_Witness ==
    /\ lastOp = "getPeaks"
    /\ Len(reads.energies) = 2 /\ Len(reads.peaks) = 2
    /\ \E cat \in Categories : reads.peaks[2][cat].isPeak
    /\ reads.energies[2].drums > 0

\* C12: when init() throws or mic.start() rejects, startListening() resolves
\* to false (nothing is thrown to the caller, who alerts and leaves isStarted
\* alone), isListening keeps its value, and the spectrum is pulled by update()
\* only while isListening is true.
C12_StartFailureIsFalse ==
    [][/\ ((\E stage \in InitStages : HostClickFails(stage))
           \/ (\E i \in 1..Len(pending) : HostClickResume(i, FALSE)))
          => /\ lastOp' = "startListening:false"
             /\ isListening' = isListening
             /\ isStarted' = isStarted
             /\ alerts' = alerts + 1
       /\ analyzeCalls' # analyzeCalls => isListening]_vars

\* C12 witness: init() has thrown once and mic.start() was rejected once, and
\* the analyzer is not listening
C12_Witness ==
    /\ lastOp = "startListening:false"
    /\ alerts = 2
    /\ isInitialized /\ ~isListening /\ ~isStarted
    /\ pending = <<>>
    /\ analyzeCalls = 0

\* C13: a startListening() whose init() and mic.start() succeed on the
\* analyzer it started on returns true and sets isListening, whatever calls
\* failed before; isStarted is set only by a startListening() that returned
\* true, and update() pulls a spectrum only once isStarted is set.
C13_RecoverableStart ==
    [][/\ \A i \in 1..Len(pending) :
             (HostClickResume(i, TRUE) /\ isInitialized /\ pending[i] = mic)
                 => /\ lastOp' = "startListening:true"
                    /\ isListening'
                    /\ isStarted'
       /\ isStarted' # isStarted
             => isStarted' /\ lastOp' = "startListening:true" /\ isListening'
       /\ analyzeCalls' # analyzeCalls => isStarted]_vars

\* C13 witness: two failed calls, then a call that returned true, then a
\* cycle run by draw()
C13_Witness ==
    /\ alerts = 2
    /\ isStarted /\ isListening
    /\ lastOp = "update:cycle"
    /\ analyzeCalls > 0

\* C14 as stated: in every reachable state, isListening implies that
\* isInitialized is true, fft and mic are set and binRanges is computed; so an
\* update() that passes its guard finds the bin mapping.
C14_ListeningImpliesInitialized ==
    /\ isListening =>
          /\ isInitialized
          /\ fft # Null
          /\ mic # Null
          /\ binRanges # Null
    /\ ~UpdateReturnsEarly => binRanges # Null

\* C15: dispose() is idempotent: a dispose() called right after a dispose()
\* changes nothing (so two calls in a row leave the state one call leaves),
\* and mic.stop() is called only in a step that ends a listening session, so
\* at most once per session.
C15_DisposeIdempotent ==
    [][/\ (lastOp = "dispose" /\ Dispose) =>
             UNCHANGED <<lifecycleVars, analysisVars, analyzeCalls, rawLog>>
       /\ (lastOp' \in {"dispose", "stopListening"} /\ mics' # mics) =>
             (isListening /\ ~isListening')]_vars

\* C15 witness: dispose() has just ended a listening session that ran
\* cycles, and stopped its mic
C15_Witness ==
    /\ lastOp = "dispose"
    /\ \E m \in MicIds : mics[m] = "stopped"
    /\ ~isListening /\ fft = Null /\ mic = Null
    /\ Len(rawLog) > 0

\* C16 as stated: after dispose() returns, isListening and isInitialized are
\* false, fft and mic are null, and smoothedEnergy, energyCache, peaks,
\* energyHistory and historyIndex hold their construction-time values.
C16_DisposeClearsState ==
    lastOp = "dispose" =>
        /\ ~isListening /\ ~isInitialized
        /\ fft = Null /\ mic = Null
        /\ \A cat \in Categories :
              /\ smoothedEnergy[cat] = 0
              /\ peaks[cat] = [value |-> 0, isPeak |-> FALSE]
              /\ \A k \in DOMAIN energyCache[cat] : energyCache[cat][k] = 0
        /\ \A i \in 0..42 : energyHistory.drums[i] = 0 /\ energyHistory.bass[i] = 0
        /\ historyIndex = 0

\* C17 as stated: no exception escapes update(): a call that has pulled the
\* spectrum returns normally even when the pull or a category's computation
\* failed, and the cycle (smoothing, history write, peak detection) is still
\* run for the categories that did not fail.
C17_NoExceptionEscapes ==
    [][analyzeCalls' # analyzeCalls =>
         /\ lastOp' # "update:throw"
         /\ historyIndex' = (historyIndex + 1) % 43
         /\ Len(rawLog') = Len(rawLog) + 1]_vars

\* a direct call has been made with a non-positive sample rate or size
BadProbe == probe # Null /\ (probe.rate <= 0 \/ probe.size <= 0)

\* C18 as stated: getBinRange / calculateAllBinRanges called with
\* fftSize <= 0 or sampleRate <= 0 ends in a configuration error and returns
\* no bin range.
C18_BadConfigFailsFast == BadProbe => probe.threw

\* a direct call has been made with a positive sample rate and size
GoodProbe == probe # Null /\ probe.rate > 0 /\ probe.size > 0

\* r is the range the formulas give for the band: start is the largest
\* integer with start * rate <= min * size, end the smallest with
\* max * size <= end * rate
IsFloorCeilRange(r, band, rate, size) ==
    /\ r.start.kind = "finite" /\ r.end.kind = "finite"
    /\ r.start.val * rate <= band.min * size
    /\ band.min * size < (r.start.val + 1) * rate
    /\ (r.end.val - 1) * rate < band.max * size
    /\ band.max * size <= r.end.val * rate

\* C19: for every band and positive sampleRate and fftSize, getBinRange
\* returns start = floor(min * fftSize / sampleRate) and
\* end = ceil(max * fftSize / sampleRate), unclamped; calculateAllBinRanges
\* returns one such entry for each of the 12 bands; {min 20, max 60} at 44100
\* and 1024 gives {start 0, end 2}.
C19_BinRangeFormula ==
    GoodProbe =>
        /\ ~probe.threw
        /\ probe.fn = "getBinRange" =>
              /\ IsFloorCeilRange(probe.range, FrequencyBands[probe.band],
                                  probe.rate, probe.size)
              /\ (/\ FrequencyBands[probe.band] = [min |-> 20, max |-> 60]
                  /\ probe.rate = 44100 /\ probe.size = 1024)
                     => probe.range = [start |-> Fin(0), end |-> Fin(2)]
        /\ probe.fn = "calculateAllBinRanges" =>
              /\ DOMAIN probe.table = DOMAIN FrequencyBands
              /\ Cardinality(DOMAIN probe.table) = 12
              /\ \A name \in DOMAIN probe.table :
                     IsFloorCeilRange(probe.table[name], FrequencyBands[name],
                                      probe.rate, probe.size)

\* C19 witness: a range that ends beyond the 1024 magnitudes of the spectrum
C19_Witness ==
    /\ GoodProbe
    /\ probe.fn = "getBinRange"
    /\ probe.size = 1024
    /\ probe.range.end.val > 1024

\* the ranges the last direct call returned
ProbedRanges ==
    IF probe.fn = "getBinRange" THEN {probe.range}
    ELSE {probe.table[name] : name \in DOMAIN probe.table}

\* C20: for each of the 12 bands and every positive sampleRate and fftSize,
\* the bin range has start >= 0 and end > start.
C20_RangeNonEmpty ==
    GoodProbe =>
        \A r \in ProbedRanges :
            /\ r.start.kind = "finite" /\ r.end.kind = "finite"
            /\ r.start.val >= 0
            /\ r.end.val > r.start.val

\* C20 witness: a one-bin range that starts at bin 0 (transform size 1)
C20_Witness ==
    /\ GoodProbe
    /\ probe.fn = "getBinRange"
    /\ probe.range.start.val = 0
    /\ probe.range.end.val = 1

\* the bins a call sums: start <= i < min(end, spectrum.length)
SummedBins(spectrum, range) ==
    {i \in range.start..(range.end - 1) : i \in DOMAIN spectrum}

RECURSIVE SumOver(_, _)
SumOver(spectrum, bins) ==
    IF bins = {} THEN 0
    ELSE LET i == CHOOSE j \in bins : TRUE
         IN  spectrum[i] + SumOver(spectrum, bins \ {i})

AverageProbe == probe # Null /\ probe.fn = "_getAverageEnergy"

\* C21: _getAverageEnergy returns the sum of spectrum[i] over
\* start <= i < min(end, spectrum.length), divided by the number of bins
\* summed and then by 255; it returns 0, with no error, when that interval
\* is empty or the band has no range; [100,100,0,...] with range {0,2} gives
\* 200/2/255.
C21_AverageEnergy ==
    AverageProbe =>
        LET bins == SummedBins(probe.spectrum, probe.range)
            n    == Cardinality(bins)
        IN  /\ ~probe.threw
            /\ (probe.known /\ n > 0) =>
                   probe.result =
                       RoundDiv(Quot(SumOver(probe.spectrum, bins), n), 255)
            /\ (~probe.known \/ n = 0) => probe.result = 0
            /\ (/\ probe.known
                /\ probe.range = [start |-> 0, end |-> 2]
                /\ Cardinality(DOMAIN probe.spectrum) = 4
                /\ probe.spectrum[0] = 100 /\ probe.spectrum[1] = 100
                /\ probe.spectrum[2] = 0 /\ probe.spectrum[3] = 0)
                   => probe.result = 392157

\* C21 witness: a range cut short by the end of the spectrum, with a
\* non-zero average over the two bins left
C21_Witness ==
    /\ AverageProbe
    /\ probe.known
    /\ probe.range = [start |-> 2, end |-> 6]
    /\ Cardinality(DOMAIN probe.spectrum) = 4
    /\ probe.spectrum[2] = 100 /\ probe.spectrum[3] = 255
    /\ probe.result > 0

\* C22: for every spectrum of bytes and every bin range, also one that ends
\* beyond the spectrum, _getAverageEnergy returns a value in [0, 1].
C22_AverageInUnitInterval ==
    AverageProbe => (0 <= probe.result /\ probe.result <= 1000000)

\* C22 witness: a full-scale spectrum under a range that ends beyond it
\* gives exactly 1
C22_Witness ==
    /\ AverageProbe
    /\ probe.known
    /\ probe.range.end > Cardinality(DOMAIN probe.spectrum)
    /\ probe.result = 1000000

\* C27 as stated: getBandEnergy returns a value in 0..255 equal to 255 times
\* what _getAverageEnergy returns for the same spectrum and band (up to the
\* rounding of the two divisions), also when the range extends past the end
\* of the spectrum.
C27_BandEnergyIsScaledAverage ==
    (probe # Null /\ probe.fn = "getBandEnergy") =>
        /\ 0 <= probe.result /\ probe.result <= 255 * 1000000
        /\ probe.result - 255 * probe.average <= 255
        /\ 255 * probe.average - probe.result <= 255

\* getBandEnergy agrees with _getAverageEnergy on the ranges that lie within
\* the spectrum, and is always in 0..255
C27_AgreesWithinSpectrum ==
    (probe # Null /\ probe.fn = "getBandEnergy") =>
        /\ 0 <= probe.result /\ probe.result <= 255 * 1000000
        /\ probe.range.end <= Cardinality(DOMAIN probe.spectrum) =>
              /\ probe.result - 255 * probe.average <= 255
              /\ 255 * probe.average - probe.result <= 255

\* the energyCache fields of a category, in the order update() computes them
SubFields ==
    [drums  |-> <<"low", "mid", "high">>,
     vocals |-> <<"low", "mid", "high">>,
     bass   |-> <<"sub", "main">>,
     highs  |-> <<"instruments", "air">>]

\* sum of e[i] * w[i] for i = 1..n, each product rounded
RECURSIVE DotProduct(_, _, _)
DotProduct(e, w, n) ==
    IF n = 0 THEN 0
    ELSE DotProduct(e, w, n - 1) + RoundDiv(e[n] * w[n][1], w[n][2])

\* C24: in update(), each category's combined energy is the sum over i of
\* energy(bands[i]) * weights[i] for the bands and weights VisualizerGroups
\* declares for it, in that order and of the same length; the sum is not
\* divided by the sum of the weights.
C24_WeightedCombination ==
    /\ [][CycleStep =>
            \A cat \in Categories :
               LET g   == VisualizerGroups[cat]
                   len == SpectrumLength(fftSize)
                   spectrum == Analyze(ScriptFrame(Len(rawLog)), len)
                   e   == [i \in 1..Len(g.bands) |->
                             _getAverageEnergy(binRanges, spectrum, len, g.bands[i])]
               IN  /\ Len(g.weights) = Len(g.bands)
                   /\ Len(SubFields[cat]) = Len(g.bands)
                   /\ \A i \in 1..Len(g.bands) :
                          energyCache'[cat][SubFields[cat][i]] = e[i]
                   /\ energyCache'[cat].combined =
                          DotProduct(e, g.weights, Len(g.bands))]_vars
    /\ [](probe # Null =>
            probe.result = DotProduct(probe.energies, probe.weights,
                                      Len(probe.energies)))

\* C24 witness: a cycle has given the drums three different band energies
C24_Witness ==
    /\ lastOp = "update:cycle"
    /\ energyCache.drums.low # energyCache.drums.mid
    /\ energyCache.drums.mid # energyCache.drums.high
    /\ energyCache.drums.combined > 0

\* the analyzer is as dispose() leaves it and no startListening() is suspended
DisposedAndSettled ==
    /\ pending = <<>>
    /\ fft = Null
    /\ mic = Null
    /\ ~isInitialized

\* C25: once dispose() has returned and every suspended startListening() has
\* settled, no microphone on which mic.start() succeeded is still running:
\* each has had mic.stop() called since.
C25_DeviceReleased ==
    DisposedAndSettled => \A m \in MicIds : mics[m] # "live"

\* C26: isListening is true only if the analyzer holds a microphone, that
\* microphone's start() has resolved and it has not been stopped since, and
\* it is the input of the analyzer's current fft.
C26_ListeningMicIsLiveInput ==
    isListening =>
        /\ mic # Null
        /\ mics[mic.id] = "live"
        /\ fft # Null
        /\ fft.input = mic

\* the particles of a visualizer's activeParticles
Held(v) == {visualizers[v].activeParticles[i] :
                i \in 1..Len(visualizers[v].activeParticles)}

\* C28: a visualizer's activeParticles never holds more than its maxParticles
\* (50, and 100 for the highs) and holds only particles with active = true;
\* update() on a disabled visualizer changes nothing.
C28_ParticleBounds ==
    /\ [](\A v \in Categories :
             /\ visualizers[v].maxParticles =
                    (IF v = "highs" THEN HighsMaxParticles ELSE BaseMaxParticles)
             /\ Len(visualizers[v].activeParticles) <= visualizers[v].maxParticles
             /\ \A obj \in Held(v) : particles[obj].active)
    /\ [][(lastOp' = "visualizer.update" /\ ~visualizers[probe'.v].enabled)
              => UNCHANGED <<visualizers, particles, particlePool>>]_vars

\* C28 witness: an update() has filled the highs visualizer to its limit
C28_Witness ==
    /\ lastOp = "visualizer.update"
    /\ probe.v = "highs"
    /\ Len(visualizers.highs.activeParticles) = HighsMaxParticles

\* the base class limit is reached too, and an update() runs while disabled
C28_DrumsFull ==
    /\ lastOp = "visualizer.update"
    /\ probe.v = "drums"
    /\ Len(visualizers.drums.activeParticles) = BaseMaxParticles

C28_UpdateWhileDisabled ==
    /\ lastOp = "visualizer.update"
    /\ ~visualizers[probe.v].enabled
    /\ visualizers[probe.v].activeParticles # <<>>

\* the free list of the pool
Free == {particlePool.pool[i] : i \in 1..Len(particlePool.pool)}

\* C29: no particle is both in the pool's free list and in an activeParticles
\* list, none occurs twice in the free list, and the pool's activeCount is
\* the number of particles in all the activeParticles lists.
C29_PoolConsistent ==
    /\ \A v \in Categories : Held(v) \cap Free = {}
    /\ Cardinality(Free) = Len(particlePool.pool)
    /\ particlePool.activeCount =
           Len(visualizers.drums.activeParticles)
           + Len(visualizers.vocals.activeParticles)
           + Len(visualizers.bass.activeParticles)
           + Len(visualizers.highs.activeParticles)

\* C29 witness: the cleanup callback has run while both driven visualizers
\* hold particles, after particles went back to the pool and out again
C29_Witness ==
    /\ lastOp = "performCleanup"
    /\ visualizers.drums.activeParticles # <<>>
    /\ visualizers.highs.activeParticles # <<>>
    /\ \E i \in 1..Len(particlePool.pool) : particlePool.pool[i] # i

\* a step that runs performCleanup(): the monitor's call, or a draw() past
\* the start screen whose currentTime is more than cleanupInterval after
\* lastCleanup
CleanupRuns ==
    \/ lastOp' = "performCleanup"
    \/ /\ lastFrameTime' # lastFrameTime
       /\ isStarted
       /\ lastOp' # "update:throw"
       /\ lastFrameTime' - memoryManager.lastCleanup > cleanupInterval

\* C23: performCleanup() invokes every registered callback once, in
\* registration order; the exception of a callback that throws is caught, the
\* callbacks after it still run, and no exception leaves performCleanup(),
\* update() or the draw() that called it, which records the cleanup time.
C23_CleanupCallbacks ==
    [][CleanupRuns =>
          LET callbacks == memoryManager.cleanupCallbacks
              n == Len(callbacks)
          IN  /\ cleanupLog'.invoked = [i \in 1..n |-> i]
              /\ cleanupLog'.caught = {i \in 1..n : callbacks[i] = "throws"}
              /\ ~cleanupLog'.escaped
              /\ lastFrameTime' # lastFrameTime =>
                     memoryManager'.lastCleanup = lastFrameTime']_vars

\* C23 witness: a draw() has run the cleanup with a throwing callback
\* registered before another one
C23_Witness ==
    /\ lastOp = "update:cycle"
    /\ lastFrameTime > 0
    /\ memoryManager.lastCleanup = lastFrameTime
    /\ cleanupLog # Null
    /\ memoryManager.cleanupCallbacks = <<"filter", "throws", "noop">>
    /\ cleanupLog.invoked = <<1, 2, 3>>

\* C30: the colour cache never holds more than 1000 entries.
C30_CacheBounded == Len(memoryManager.colorCache) <= colorCacheLimit

\* what does hold of getColor: at most colorCacheLimit + 1 entries, the
\* object returned carries the arguments, and a hit leaves the cache alone
C30_CacheBoundedByOneMore ==
    /\ Len(memoryManager.colorCache) <= colorCacheLimit + 1
    /\ (probe # Null /\ lastOp = "getColor") => probe.result = probe.args

C30_HitKeepsCache ==
    [][(lastOp' = "getColor" /\ probe'.hit) =>
          memoryManager'.colorCache = memoryManager.colorCache]_vars

====
